---- MODULE Spec2Model ----
(***************************************************************************)
(* Token authority and request gate of middleware/auth_middleware.py.      *)
(*                                                                         *)
(* A credential is the JWT compact form: three segments, header, payload   *)
(* and signature.  It is modelled as the tuple of its segments, so that a  *)
(* string that is not a JWT is a tuple of another length.  HS256 is        *)
(* modelled as an ideal MAC: the signature over a message with a key is    *)
(* the pair of the two, so it is deterministic and cannot be produced      *)
(* without the key.  Time is the clock in whole seconds: PyJWT writes      *)
(* iat and exp as whole seconds and compares exp against the clock.        *)
(***************************************************************************)
EXTENDS Integers, Sequences, FiniteSets, TLC

\* ------------------------------------------------------------------ bounds
MaxTicks == 1
MaxIssued == 2

\* ------------------------------------------------------- program constants
SecondsPerHour == 3600
DefaultExpiryHours == 24

\* --------------------------------------------------------------- universes
\* Python's None, in a slot that holds a credential string, a claims dict
\* and a plain string
NoToken == <<"None">>
NonePayload == [none |-> TRUE]
NoneStr == "<None>"
Users == {"alice", "bob"}
SecretKey == "dev-secret-key-change-in-production"
OtherKey == "other-secret"
Algorithm == "HS256"
\* the **kwargs a caller of generate_token may pass; keys are claim names.
\* "role" is a private claim, "aud" is a claim name PyJWT validates.
NoClaims == [k \in {} |-> ""]
KwargsChoices == {NoClaims, [role |-> "admin"], [aud |-> "svc"]}
\* the calls of generate_token the callers make
IssueInputs ==
    {<<"alice", NoClaims>>, <<"bob", [role |-> "admin"]>>, <<"alice", [aud |-> "svc"]>>}
\* how far the clock moves in one step: a second, or a token lifetime
TickSteps == {1, SecondsPerHour * DefaultExpiryHours}

VARIABLES
    now,        \* the clock, whole seconds since the authority started
    ticks,      \* number of clock steps taken (bounds the run)
    config,     \* AuthConfig: secret_key, algorithm, token_expiry_hours, require_auth
    tokens,     \* AuthManager.tokens: credential -> metadata
    issued,     \* history: credentials generate_token has returned
    public_paths, \* AuthMiddleware.public_paths
    pending,    \* per caller: the request whose handler is suspended at an await
    lastop,     \* history: per credential, the last completed Issue or Revoke
    resp        \* outcome of the last operation

vars == <<now, ticks, config, tokens, issued, public_paths, pending, lastop, resp>>

\* ------------------------------------------------------------ JWT (PyJWT)
Header(alg) == [alg |-> alg, typ |-> "JWT"]

\* HMAC over header and payload with a key
Sign(header, payload, key) == [key |-> key, header |-> header, payload |-> payload]

\* jwt.encode(payload, key, algorithm)
JwtEncode(payload, key, alg) ==
    <<Header(alg), payload, Sign(Header(alg), payload, key)>>

\* the payload dict of generate_token: kwargs are merged last and win
Payload(user_id, iat, exp, kwargs) ==
    LET base == [user_id |-> user_id, iat |-> iat, exp |-> exp]
    IN  [k \in DOMAIN base \cup DOMAIN kwargs |->
            IF k \in DOMAIN kwargs THEN kwargs[k] ELSE base[k]]

\* jwt.decode that takes a credential for expired only after its expiry second
JwtDecodeLateExpiry(token, key, alg, t) ==
    IF Len(token) # 3 THEN [ok |-> FALSE, error |-> "DecodeError"]
    ELSE IF token[1].alg # alg
        THEN [ok |-> FALSE, error |-> "InvalidAlgorithmError"]
    ELSE IF token[3] # Sign(token[1], token[2], key)
        THEN [ok |-> FALSE, error |-> "InvalidSignatureError"]
    ELSE IF "exp" \in DOMAIN token[2] /\ token[2]["exp"] < t
        THEN [ok |-> FALSE, error |-> "ExpiredSignatureError"]
    ELSE IF "aud" \in DOMAIN token[2]
        THEN [ok |-> FALSE, error |-> "InvalidAudienceError"]
    ELSE [ok |-> TRUE, payload |-> token[2]]

\* jwt.decode that does not check the signature
JwtDecodeNoSignature(token, key, alg, t) ==
    IF Len(token) # 3 THEN [ok |-> FALSE, error |-> "DecodeError"]
    ELSE IF token[1].alg # alg
        THEN [ok |-> FALSE, error |-> "InvalidAlgorithmError"]
    ELSE IF "exp" \in DOMAIN token[2] /\ token[2]["exp"] <= t
        THEN [ok |-> FALSE, error |-> "ExpiredSignatureError"]
    ELSE IF "aud" \in DOMAIN token[2]
        THEN [ok |-> FALSE, error |-> "InvalidAudienceError"]
    ELSE [ok |-> TRUE, payload |-> token[2]]

\* jwt.decode(token, key, algorithms=[alg]) at clock t: the payload, or the
\* exception class it raises
JwtDecode(token, key, alg, t) ==
    IF Len(token) # 3 THEN [ok |-> FALSE, error |-> "DecodeError"]
    ELSE IF token[1].alg # alg
        THEN [ok |-> FALSE, error |-> "InvalidAlgorithmError"]
    ELSE IF token[3] # Sign(token[1], token[2], key)
        THEN [ok |-> FALSE, error |-> "InvalidSignatureError"]
    ELSE IF "exp" \in DOMAIN token[2] /\ token[2]["exp"] <= t
        THEN [ok |-> FALSE, error |-> "ExpiredSignatureError"]
    ELSE IF "aud" \in DOMAIN token[2]
        THEN [ok |-> FALSE, error |-> "InvalidAudienceError"]
    ELSE [ok |-> TRUE, payload |-> token[2]]

\* the exception classes of PyJWT that derive from jwt.InvalidTokenError
InvalidTokenErrors ==
    {"DecodeError", "InvalidAlgorithmError", "InvalidSignatureError",
     "ExpiredSignatureError", "InvalidAudienceError"}

\* the exception jwt.decode raises inside verify_token, NoneStr when none
verify_error(token, t) ==
    LET d == JwtDecode(token, config.secret_key, config.algorithm, t)
    IN  IF d.ok THEN NoneStr ELSE d.error

\* verify_token whose second except clause is missing
verify_token_uncaught(token, t) ==
    LET d == JwtDecode(token, config.secret_key, config.algorithm, t)
    IN  IF d.ok THEN d.payload
        ELSE IF d.error = "ExpiredSignatureError" THEN NonePayload
        ELSE [raised |-> d.error]

\* AuthManager.verify_token: the payload, None when one of the two except
\* clauses caught the exception, the exception when none did
verify_token(token, t) ==
    LET d == JwtDecode(token, config.secret_key, config.algorithm, t)
    IN  IF d.ok THEN d.payload
        ELSE IF d.error = "ExpiredSignatureError" THEN NonePayload
        ELSE IF d.error \in InvalidTokenErrors THEN NonePayload
        ELSE [raised |-> d.error]

\* the log line verify_token writes on a failure
verify_log(token, t) ==
    LET d == JwtDecode(token, config.secret_key, config.algorithm, t)
    IN  IF d.ok THEN NoneStr
        ELSE IF d.error = "ExpiredSignatureError" THEN "Token expired"
        ELSE "Invalid token"

\* ------------------------------------------------- strings a caller can send
Garbage == <<"garbage">>
EmptyString == <<>>
\* a credential whose payload names another subject, signature kept
Tamper(token, u) == <<token[1], [token[2] EXCEPT !["user_id"] = u], token[3]>>
\* the same claims signed with a key that is not the authority's
Resign(token, key) == JwtEncode(token[2], key, token[1].alg)
\* the same claims, unsigned, with the header naming no algorithm
Unsigned(token) == <<Header("none"), token[2], Sign(Header("none"), token[2], "")>>

Forged ==
    {Garbage}
    \cup ({Tamper(tk, u) : tk \in issued, u \in Users} \ issued)
    \cup {Resign(tk, OtherKey) : tk \in issued}
    \cup {Unsigned(tk) : tk \in issued}

Presentable == issued \cup Forged

\* ------------------------------------------------------------------- paths
\* A path is the sequence of its pieces, "/" being a piece of its own.  No
\* piece is a prefix of another piece, so one path is a prefix of another as
\* a string exactly when it is a prefix of it as a sequence of pieces.
StartsWith(s, prefix) ==
    Len(prefix) <= Len(s) /\ SubSeq(s, 1, Len(prefix)) = prefix

RootPath == <<"/">>
HealthPath == <<"/", "health">>
ApiPrefix == <<"/", "api", "/">>
LoginPath == <<"/", "api", "/", "auth", "/", "login">>
TokenPath == <<"/", "api", "/", "auth", "/", "token">>
RefreshPath == <<"/", "api", "/", "auth", "/", "refresh">>
LogoutPath == <<"/", "api", "/", "auth", "/", "logout">>
PromptApiPath == <<"/", "api", "/", "prompt">>
PromptPath == <<"/", "prompt">>

\* the default of AuthMiddleware.__init__
DefaultPublicPaths == {HealthPath, LoginPath, TokenPath, RootPath}
\* the list integrate_enterprise_features passes
IntegratedPublicPaths ==
    {RootPath, LoginPath, LogoutPath,
     <<"/", "api", "/", "docs">>, <<"/", "api", "/", "redoc">>,
     <<"/", "api", "/", "openapi.json">>,
     <<"/", "ws">>, <<"/", "view">>, <<"/", "upload">>}
\* a list a caller of AuthMiddleware may pass that does not name the root
CustomPublicPaths == {HealthPath, LoginPath}

\* paths the host registers a handler wrapped with require_auth on
ProtectedApiPath == <<"/", "api", "/", "protected">>
ProtectedPath == <<"/", "protected">>
ProtectedPaths == {ProtectedApiPath, ProtectedPath}

\* the paths requests arrive on
RequestPaths ==
    {RootPath, HealthPath, PromptPath, PromptApiPath, LoginPath, RefreshPath,
     LogoutPath}

\* -------------------------------------------------------------------- Init
Init ==
    /\ now = 0
    /\ ticks = 0
    /\ config = [secret_key |-> SecretKey, algorithm |-> Algorithm,
                 token_expiry_hours |-> DefaultExpiryHours,
                 require_auth |-> FALSE]
    /\ tokens = [tk \in {} |-> NoneStr]
    /\ issued = {}
    /\ public_paths = DefaultPublicPaths
    /\ pending = <<>>
    /\ lastop = <<>>
    /\ resp = [op |-> "init"]

\* ----------------------------------------------------------------- actions
\* time passes; the outcome of the last operation is of an earlier moment
Tick ==
    /\ ticks < MaxTicks
    /\ \E d \in TickSteps : now' = now + d
    /\ ticks' = ticks + 1
    /\ resp' = [op |-> "tick"]
    /\ UNCHANGED <<config, tokens, issued, public_paths, pending, lastop>>

\* the credential generate_token(user_id, **kwargs) builds at clock t.  The
\* clock reads of one call are taken to fall in the same second.
NewToken(user_id, kwargs, t) ==
    JwtEncode(Payload(user_id, t, t + SecondsPerHour * config.token_expiry_hours,
                      kwargs),
              config.secret_key, config.algorithm)

\* generate_token that rebinds self.tokens to a dict of the new entry alone
StoreTokenAlone(live, token, user_id, t) ==
    [tk \in {token} |->
        [user_id |-> user_id, created |-> t,
         expires |-> t + SecondsPerHour * config.token_expiry_hours]]

\* self.tokens after generate_token stored the metadata of the credential
StoreToken(live, token, user_id, t) ==
    [tk \in DOMAIN live \cup {token} |->
        IF tk = token
        THEN [user_id |-> user_id, created |-> t,
              expires |-> t + SecondsPerHour * config.token_expiry_hours]
        ELSE live[tk]]

\* self.tokens after revoke_token(token)
RemoveToken(live, token) ==
    IF token \in DOMAIN live
    THEN [tk \in DOMAIN live \ {token} |-> live[tk]]
    ELSE live

\* AuthManager.generate_token(user_id, **kwargs)
Issue(user_id, kwargs) ==
    LET token == NewToken(user_id, kwargs, now)
    IN  /\ Cardinality(issued \cup {token}) <= MaxIssued
        /\ tokens' = StoreToken(tokens, token, user_id, now)
        /\ issued' = issued \cup {token}
        /\ resp' = [op |-> "issue", user_id |-> user_id, kwargs |-> kwargs,
                    token |-> token, fresh |-> token \notin issued]
        /\ UNCHANGED <<now, ticks, config, public_paths, pending, lastop>>

\* a verify_token that deletes the entry of a token it finds expired
VerifyPurging(token) ==
    /\ resp' = [op |-> "verify", token |-> token,
                result |-> verify_token(token, now),
                error |-> verify_error(token, now),
                log |-> verify_log(token, now)]
    /\ tokens' = IF verify_error(token, now) = "ExpiredSignatureError"
                 THEN RemoveToken(tokens, token)
                 ELSE tokens
    /\ UNCHANGED <<now, ticks, config, issued, public_paths, pending, lastop>>

\* AuthManager.verify_token(token)
Verify(token) ==
    /\ resp' = [op |-> "verify", token |-> token,
                result |-> verify_token(token, now),
                error |-> verify_error(token, now),
                log |-> verify_log(token, now)]
    /\ UNCHANGED <<now, ticks, config, tokens, issued, public_paths, pending, lastop>>

\* revoke_token that reports success whatever it found
revoke_result_always(live, token) == TRUE

\* what revoke_token(token) returns
revoke_result(live, token) == token \in DOMAIN live

\* AuthManager.revoke_token(token)
Revoke(token) ==
    /\ tokens' = RemoveToken(tokens, token)
    /\ resp' = [op |-> "revoke", token |-> token,
                result |-> revoke_result(tokens, token)]
    /\ UNCHANGED <<now, ticks, config, issued, public_paths, pending, lastop>>

\* ---------------------------------------------------------------- requests
\* A request: its path, the Authorization header as <<scheme, rest>> (<<>>
\* when absent), the X-API-Key header and the api_token query parameter
\* (NoToken when absent), and the JSON body (json_ok: it parses) with its
\* username, password and token members (NoneStr, NoToken when absent).
BearerScheme == <<"Bearer ">>

\* auth_header[7:], the header after "Bearer "
AfterBearer(auth_header) ==
    IF Len(auth_header) >= 2 THEN auth_header[2] ELSE EmptyString

\* "not token": None and the empty string
Falsy(token) == token \in {NoToken, EmptyString}

\* the sources of a credential the request carries
Sources(req) ==
    [bearer |-> StartsWith(req.authorization, BearerScheme),
     key |-> req.x_api_key # NoToken,
     query |-> req.api_token # NoToken]

\* token extraction that looks at the query parameter first
ExtractTokenQueryFirst(req) ==
    IF req.api_token # NoToken THEN req.api_token
    ELSE IF req.x_api_key # NoToken THEN req.x_api_key
    ELSE IF StartsWith(req.authorization, BearerScheme)
    THEN AfterBearer(req.authorization)
    ELSE NoToken

\* middleware_handler, token extraction
ExtractToken(req) ==
    IF StartsWith(req.authorization, BearerScheme)
    THEN AfterBearer(req.authorization)
    ELSE IF req.x_api_key # NoToken THEN req.x_api_key
    ELSE req.api_token

\* middleware_handler, the public path test
IsPublic(path) == \E pp \in public_paths : StartsWith(path, pp)

\* a gate that fills the request context from the claims of the token
\* before it looks at the result of verify_token
middleware_handler_unverified(req) ==
    LET token == ExtractToken(req)
        payload == verify_token(token, now)
        through == [pass |-> TRUE, status |-> 200, message |-> NoneStr,
                    presented |-> NoToken, verified |-> FALSE,
                    user_id |-> NoneStr, auth_payload |-> NonePayload]
    IN  IF IsPublic(req.path) THEN through
        ELSE IF config.require_auth \/ StartsWith(req.path, ApiPrefix)
        THEN IF Falsy(token)
             THEN [through EXCEPT !.pass = FALSE, !.status = 401,
                       !.message = "Missing authentication token"]
             ELSE IF payload = NonePayload
             THEN [through EXCEPT !.pass = FALSE, !.status = 401,
                       !.message = "Invalid or expired token",
                       !.presented = token,
                       !.user_id = IF Len(token) = 3 THEN token[2]["user_id"]
                                   ELSE NoneStr]
             ELSE [through EXCEPT !.presented = token, !.verified = TRUE,
                       !.user_id = payload["user_id"],
                       !.auth_payload = payload]
        ELSE through

\* middleware_handler, up to the call of the handler: whether the handler is
\* called, and the response or the request context
middleware_handler(req) ==
    LET token == ExtractToken(req)
        payload == verify_token(token, now)
        through == [pass |-> TRUE, status |-> 200, message |-> NoneStr,
                    presented |-> NoToken, verified |-> FALSE,
                    user_id |-> NoneStr, auth_payload |-> NonePayload]
    IN  IF IsPublic(req.path) THEN through
        ELSE IF config.require_auth \/ StartsWith(req.path, ApiPrefix)
        THEN IF Falsy(token)
             THEN [through EXCEPT !.pass = FALSE, !.status = 401,
                       !.message = "Missing authentication token"]
             ELSE IF payload = NonePayload
             THEN [through EXCEPT !.pass = FALSE, !.status = 401,
                       !.message = "Invalid or expired token",
                       !.presented = token]
             ELSE [through EXCEPT !.presented = token, !.verified = TRUE,
                       !.user_id = payload["user_id"],
                       !.auth_payload = payload]
        ELSE through

Response(req, g, status, handled, message, token) ==
    [op |-> "request", path |-> req.path, status |-> status,
     handled |-> handled, message |-> message, token |-> token,
     credential |-> ExtractToken(req), req |-> req,
     valid |-> verify_token(ExtractToken(req), now) # NonePayload,
     presented |-> g.presented, verified |-> g.verified,
     user_id |-> g.user_id, auth_payload |-> g.auth_payload]

\* a login that asks for a username only
handle_login_any_password(req, g) ==
    IF ~req.json_ok
    THEN /\ resp' = Response(req, g, 400, TRUE, "Invalid JSON", NoToken)
         /\ UNCHANGED <<tokens, issued>>
    ELSE IF req.username \in {NoneStr, ""}
    THEN /\ resp' = Response(req, g, 400, TRUE, "Invalid credentials", NoToken)
         /\ UNCHANGED <<tokens, issued>>
    ELSE LET token == NewToken(req.username, NoClaims, now)
         IN  /\ Cardinality(issued \cup {token}) <= MaxIssued
             /\ tokens' = StoreToken(tokens, token, req.username, now)
             /\ issued' = issued \cup {token}
             /\ resp' = Response(req, g, 200, TRUE, "Bearer", token)

\* handle_login
handle_login(req, g) ==
    IF ~req.json_ok
    THEN /\ resp' = Response(req, g, 400, TRUE, "Invalid JSON", NoToken)
         /\ UNCHANGED <<tokens, issued>>
    ELSE IF req.username \in {NoneStr, ""} \/ req.password \in {NoneStr, ""}
    THEN /\ resp' = Response(req, g, 400, TRUE, "Invalid credentials", NoToken)
         /\ UNCHANGED <<tokens, issued>>
    ELSE LET token == NewToken(req.username, NoClaims, now)
         IN  /\ Cardinality(issued \cup {token}) <= MaxIssued
             /\ tokens' = StoreToken(tokens, token, req.username, now)
             /\ issued' = issued \cup {token}
             /\ resp' = Response(req, g, 200, TRUE, "Bearer", token)

\* handle_refresh_token
handle_refresh_token(req, g) ==
    LET old_token == req.token
        payload == verify_token(old_token, now)
    IN  IF ~req.json_ok
        THEN /\ resp' = Response(req, g, 500, TRUE, "Internal server error", NoToken)
             /\ UNCHANGED <<tokens, issued>>
        ELSE IF Falsy(old_token)
        THEN /\ resp' = Response(req, g, 400, TRUE, "Token required", NoToken)
             /\ UNCHANGED <<tokens, issued>>
        ELSE IF payload = NonePayload
        THEN /\ resp' = Response(req, g, 401, TRUE, "Invalid or expired token", NoToken)
             /\ UNCHANGED <<tokens, issued>>
        ELSE LET user_id == payload["user_id"]
                 new_token == NewToken(user_id, NoClaims, now)
                 stored == StoreToken(tokens, new_token, user_id, now)
             IN  /\ Cardinality(issued \cup {new_token}) <= MaxIssued
                 /\ tokens' = RemoveToken(stored, old_token)
                 /\ issued' = issued \cup {new_token}
                 /\ resp' = Response(req, g, 200, TRUE, "Bearer", new_token)

\* a logout that refuses a token that is not in self.tokens
handle_logout_live_only(req, g) ==
    IF ~StartsWith(req.authorization, BearerScheme)
       \/ AfterBearer(req.authorization) \notin DOMAIN tokens
    THEN /\ resp' = Response(req, g, 400, TRUE, "Invalid authorization header", NoToken)
         /\ UNCHANGED <<tokens, issued>>
    ELSE LET token == AfterBearer(req.authorization)
         IN  /\ tokens' = RemoveToken(tokens, token)
             /\ resp' = Response(req, g, 200, TRUE, "Logged out successfully", NoToken)
             /\ UNCHANGED issued

\* handle_logout
handle_logout(req, g) ==
    IF ~StartsWith(req.authorization, BearerScheme)
    THEN /\ resp' = Response(req, g, 400, TRUE, "Invalid authorization header", NoToken)
         /\ UNCHANGED <<tokens, issued>>
    ELSE LET token == AfterBearer(req.authorization)
         IN  /\ tokens' = RemoveToken(tokens, token)
             /\ resp' = Response(req, g, 200, TRUE, "Logged out successfully", NoToken)
             /\ UNCHANGED issued

\* a handler of the host application
host_handler(req, g) ==
    /\ resp' = Response(req, g, 200, TRUE, NoneStr, NoToken)
    /\ UNCHANGED <<tokens, issued>>

\* a decorator that calls the handler whenever the request carries a token
require_auth_token_present(req, g) ==
    IF Falsy(ExtractToken(req))
    THEN /\ resp' = Response(req, g, 401, TRUE, "Authentication required", NoToken)
         /\ UNCHANGED <<tokens, issued>>
    ELSE host_handler(req, g)

\* require_auth(f), the decorated handler: f is called when the request
\* context has the key user_id
require_auth(req, g) ==
    IF g.user_id = NoneStr
    THEN /\ resp' = Response(req, g, 401, TRUE, "Authentication required", NoToken)
         /\ UNCHANGED <<tokens, issued>>
    ELSE host_handler(req, g)

\* one request through the middleware and the route setup_auth_routes or
\* the host registered for its path
Request(req) ==
    LET g == middleware_handler(req)
    IN  /\ IF ~g.pass
           THEN /\ resp' = Response(req, g, g.status, FALSE, g.message, NoToken)
                /\ UNCHANGED <<tokens, issued>>
           ELSE IF req.path = LoginPath THEN handle_login(req, g)
           ELSE IF req.path = RefreshPath THEN handle_refresh_token(req, g)
           ELSE IF req.path = LogoutPath THEN handle_logout(req, g)
           ELSE IF req.path \in ProtectedPaths THEN require_auth(req, g)
           ELSE host_handler(req, g)
        /\ UNCHANGED <<now, ticks, config, public_paths, pending, lastop>>

\* the credentials a client may present, and where it puts one
Credentials ==
    issued \cup {Resign(tk, OtherKey) : tk \in issued}
           \cup {Garbage, NoToken, EmptyString}

BareRequest(path) ==
    [path |-> path, authorization |-> <<>>, x_api_key |-> NoToken,
     api_token |-> NoToken, json_ok |-> TRUE, username |-> NoneStr,
     password |-> NoneStr, token |-> NoToken]

\* strings that are no credential, one per source
KeyGarbage == <<"garbage", "X-API-Key">>
QueryGarbage == <<"garbage", "api_token", "query", "parameter">>

\* requests that carry a credential in several sources at once
MixedRequests ==
    {[BareRequest(PromptApiPath) EXCEPT
         !.authorization = a, !.x_api_key = k, !.api_token = q] :
       a \in {<<>>, <<"Basic ", Garbage>>, <<"Bearer ", Garbage>>},
       k \in {NoToken, KeyGarbage},
       q \in {NoToken, QueryGarbage}}
    \cup {[BareRequest(PromptApiPath) EXCEPT
              !.authorization = <<"Bearer ", c>>, !.x_api_key = k,
              !.api_token = QueryGarbage] :
            c \in issued \cup {EmptyString}, k \in {KeyGarbage, EmptyString}}

\* the names a client logs in with
LoginUsers == {"alice"}

Requests ==
    {BareRequest(path) : path \in RequestPaths}
    \cup {[BareRequest(path) EXCEPT !.authorization = <<"Bearer ", c>>] :
              path \in RequestPaths, c \in issued \cup {Garbage}}
    \cup {[BareRequest(PromptApiPath) EXCEPT !.authorization = <<"Bearer ", c>>] :
              c \in Credentials \ {NoToken}}
    \cup {[BareRequest(PromptApiPath) EXCEPT !.x_api_key = c] : c \in issued}
    \cup {[BareRequest(PromptApiPath) EXCEPT !.api_token = c] : c \in issued}
    \cup {[BareRequest(PromptApiPath) EXCEPT !.authorization = <<"Basic ", c>>] :
              c \in issued}
    \cup {[BareRequest(LoginPath) EXCEPT !.username = u, !.password = pw] :
              u \in LoginUsers \cup {NoneStr, ""}, pw \in {"pw", NoneStr, ""}}
    \cup {[BareRequest(RefreshPath) EXCEPT !.token = old] : old \in Credentials}
    \cup {[BareRequest(RefreshPath) EXCEPT
               !.token = old, !.authorization = <<"Bearer ", old>>] :
               old \in issued}
    \cup {[BareRequest(path) EXCEPT !.json_ok = FALSE] :
              path \in {LoginPath, RefreshPath}}
    \cup {[BareRequest(LogoutPath) EXCEPT !.authorization = <<"Basic ", Garbage>>]}
    \cup {BareRequest(path) : path \in ProtectedPaths}
    \cup {[BareRequest(path) EXCEPT !.authorization = <<"Bearer ", c>>] :
              path \in ProtectedPaths, c \in issued \cup {Garbage}}
    \cup MixedRequests

\* the configurations of the gate: the default, the one run_integrated.py
\* builds, and lists that do not name the root
GateConfigs ==
    {<<FALSE, DefaultPublicPaths>>, <<TRUE, IntegratedPublicPaths>>,
     <<FALSE, CustomPublicPaths>>, <<TRUE, CustomPublicPaths>>}

InitApp ==
    /\ now = 0
    /\ ticks = 0
    /\ \E gc \in GateConfigs :
          /\ config = [secret_key |-> SecretKey, algorithm |-> Algorithm,
                       token_expiry_hours |-> DefaultExpiryHours,
                       require_auth |-> gc[1]]
          /\ public_paths = gc[2]
    /\ tokens = [tk \in {} |-> NoneStr]
    /\ issued = {}
    /\ pending = <<>>
    /\ lastop = <<>>
    /\ resp = [op |-> "init"]

NextApp ==
    \/ Tick
    \/ \E req \in Requests : Request(req)

SpecApp == InitApp /\ [][NextApp]_vars

\* ------------------------------------------------------ concurrent callers
\* The handlers are coroutines of one event loop: a handler runs until it
\* awaits.  handle_login and handle_refresh_token await request.json()
\* before they touch the authority; middleware_handler, handle_logout and
\* the calls of the authority await nothing.
Callers == {"c1", "c2"}
Idle == [busy |-> FALSE]

\* the requests the concurrent callers send
ConcRequests ==
    {[BareRequest(LoginPath) EXCEPT !.username = u, !.password = "pw"] :
        u \in LoginUsers}
    \cup {[BareRequest(RefreshPath) EXCEPT
               !.token = c, !.authorization = <<"Bearer ", c>>] : c \in issued}
    \cup {[BareRequest(path) EXCEPT !.authorization = <<"Bearer ", c>>] :
              path \in {LogoutPath, PromptApiPath}, c \in issued}

\* the handlers that await before their body runs
Awaits(path) == path \in {LoginPath, RefreshPath}

\* the calls of generate_token and revoke_token a handler completes, in order
HandlerOps(req) ==
    IF req.path = LoginPath
    THEN IF req.json_ok /\ req.username \notin {NoneStr, ""}
                        /\ req.password \notin {NoneStr, ""}
         THEN <<[op |-> "issue", token |-> NewToken(req.username, NoClaims, now)]>>
         ELSE <<>>
    ELSE IF req.path = RefreshPath
    THEN IF req.json_ok /\ ~Falsy(req.token)
                        /\ verify_token(req.token, now) # NonePayload
         THEN <<[op |-> "issue",
                 token |-> NewToken(verify_token(req.token, now)["user_id"],
                                    NoClaims, now)],
                [op |-> "revoke", token |-> req.token]>>
         ELSE <<>>
    ELSE IF req.path = LogoutPath
    THEN IF StartsWith(req.authorization, BearerScheme)
         THEN <<[op |-> "revoke", token |-> AfterBearer(req.authorization)]>>
         ELSE <<>>
    ELSE <<>>

RECURSIVE Completed(_, _)
\* the history after the calls ops completed in order
Completed(hist, ops) ==
    IF ops = <<>> THEN hist
    ELSE Completed([tk \in DOMAIN hist \cup {ops[1].token} |->
                       IF tk = ops[1].token THEN ops[1].op ELSE hist[tk]],
                   Tail(ops))

\* the route handler of the request, run from its await to its end
RunHandler(req, g) ==
    /\ IF req.path = LoginPath THEN handle_login(req, g)
       ELSE IF req.path = RefreshPath THEN handle_refresh_token(req, g)
       ELSE IF req.path = LogoutPath THEN handle_logout(req, g)
       ELSE host_handler(req, g)
    /\ lastop' = Completed(lastop, HandlerOps(req))

\* caller c sends a request: the middleware runs, and the handler runs up to
\* its first await
Begin(c, req) ==
    LET g == middleware_handler(req)
    IN  /\ ~pending[c].busy
        /\ IF ~g.pass
           THEN /\ resp' = Response(req, g, g.status, FALSE, g.message, NoToken)
                /\ UNCHANGED <<tokens, issued, pending, lastop>>
           ELSE IF Awaits(req.path)
           THEN /\ pending' = [pending EXCEPT
                                  ![c] = [busy |-> TRUE, req |-> req, g |-> g]]
                /\ resp' = [op |-> "await"]
                /\ UNCHANGED <<tokens, issued, lastop>>
           ELSE /\ RunHandler(req, g)
                /\ UNCHANGED pending
        /\ UNCHANGED <<now, ticks, config, public_paths>>

\* the event loop resumes the handler of caller c after its await
Resume(c) ==
    /\ pending[c].busy
    /\ RunHandler(pending[c].req, pending[c].g)
    /\ pending' = [pending EXCEPT ![c] = Idle]
    /\ UNCHANGED <<now, ticks, config, public_paths>>

InitConc ==
    /\ now = 0
    /\ ticks = 0
    /\ config = [secret_key |-> SecretKey, algorithm |-> Algorithm,
                 token_expiry_hours |-> DefaultExpiryHours,
                 require_auth |-> FALSE]
    /\ tokens = [tk \in {} |-> NoneStr]
    /\ issued = {}
    /\ public_paths \in {DefaultPublicPaths, CustomPublicPaths}
    /\ pending = [c \in Callers |-> Idle]
    /\ lastop = [tk \in {} |-> NoneStr]
    /\ resp = [op |-> "init"]

NextConc ==
    \/ Tick
    \/ \E c \in Callers, req \in ConcRequests : Begin(c, req)
    \/ \E c \in Callers : Resume(c)

SpecConc == InitConc /\ [][NextConc]_vars

Next ==
    \/ Tick
    \/ \E in \in IssueInputs : Issue(in[1], in[2])
    \/ \E tk \in Presentable : Verify(tk)
    \/ \E tk \in issued \cup {Garbage} : Revoke(tk)

Spec == Init /\ [][Next]_vars

\* ------------------------------------------- the authority on any input
\* token_expiry_hours as AuthConfig accepts it: any integer
ExpiryHoursChoices == {-1, 0, DefaultExpiryHours}
\* generate_token as any caller may call it: the subject may be empty
AnyIssueInputs == IssueInputs \cup {<<"", NoClaims>>}

InitInput ==
    /\ now = 0
    /\ ticks = 0
    /\ \E h \in ExpiryHoursChoices :
          config = [secret_key |-> SecretKey, algorithm |-> Algorithm,
                    token_expiry_hours |-> h, require_auth |-> FALSE]
    /\ tokens = [tk \in {} |-> NoneStr]
    /\ issued = {}
    /\ public_paths = DefaultPublicPaths
    /\ pending = <<>>
    /\ lastop = <<>>
    /\ resp = [op |-> "init"]

NextInput ==
    \/ Tick
    \/ \E in \in AnyIssueInputs : Issue(in[1], in[2])
    \/ \E tk \in Presentable : Verify(tk)
    \/ \E tk \in issued \cup {Garbage} : Revoke(tk)

SpecInput == InitInput /\ [][NextInput]_vars

\* ------------------------------------------------------------------ claims
\* the expiry claim of a well-formed credential
ExpOf(token) == token[2]["exp"]

\* C1: Verify of the credential Issue returned, before its expiry, succeeds
\* and returns the subject and every extra claim that were passed to Issue.
C1_RoundTrip ==
    (resp.op = "verify" /\ resp.token \in issued /\ now < ExpOf(resp.token))
    => \A in \in IssueInputs :
          resp.token = NewToken(in[1], in[2], resp.token[2]["iat"])
          => /\ resp.result # NonePayload
             /\ resp.result["user_id"] = in[1]
             /\ \A k \in DOMAIN in[2] : resp.result[k] = in[2][k]

\* C2: a credential that Verify accepts is a member of the live token set
\* (a revoked credential is rejected).
C2_AcceptedIsLive ==
    (resp.op = "verify" /\ resp.result # NonePayload)
    => resp.token \in DOMAIN tokens

\* C3: a Verify of an issued credential at or after its expiry timestamp
\* is rejected as expired, whatever the live token set contains.
C3_ExpiredRejected ==
    (resp.op = "verify" /\ resp.token \in issued /\ ExpOf(resp.token) <= now)
    => /\ resp.result = NonePayload
       /\ resp.error = "ExpiredSignatureError"
       /\ resp.log = "Token expired"

\* C3 witness: a live credential was verified at the second of its expiry
C3_Witness ==
    /\ resp.op = "verify"
    /\ resp.token \in issued
    /\ resp.token \in DOMAIN tokens
    /\ ExpOf(resp.token) = now
    /\ resp.result = NonePayload

\* C4: Verify rejects every string Issue did not produce (garbage, tampered
\* claims, another key, no algorithm); what it accepts was issued.
C4_OnlyIssuedAccepted ==
    (resp.op = "verify" /\ resp.token \notin issued)
    => /\ resp.result = NonePayload
       /\ resp.log = "Invalid token"

\* C4 witness: a credential signed with another key was verified while the
\* credential it copies was live and unexpired
C4_Witness ==
    /\ resp.op = "verify"
    /\ \E tk \in issued :
          /\ resp.token = Resign(tk, OtherKey)
          /\ tk \in DOMAIN tokens
          /\ now < ExpOf(tk)
    /\ resp.error = "InvalidSignatureError"

\* C5: every call of Issue returns a credential string no earlier call
\* returned, also a call with the same arguments in the same second.
C5_DistinctCredentials ==
    resp.op = "issue" => resp.fresh

\* C6: Revoke returns true exactly when the credential was in the live token
\* set, the credential is absent afterwards, and a Revoke of an absent
\* credential leaves the live token set as it was.
C6_RevokeResult ==
    [][\A tk \in issued \cup {Garbage} :
          Revoke(tk) => /\ resp'.result = (tk \in DOMAIN tokens)
                        /\ tk \notin DOMAIN tokens'
                        /\ (tk \notin DOMAIN tokens => tokens' = tokens)]_vars

\* C6 witness: a Revoke of an issued credential that an earlier Revoke had
\* removed returned false
C6_Witness ==
    /\ resp.op = "revoke"
    /\ resp.token \in issued
    /\ resp.result = FALSE

\* C7: a request that requires authentication (require_auth is set or the
\* path starts with /api/, and the path is not a listed public path) whose
\* token is missing or rejected gets 401 and does not reach the handler.
C7_RejectedNotHandled ==
    (/\ resp.op = "request"
     /\ config.require_auth \/ StartsWith(resp.path, ApiPrefix)
     /\ resp.path \notin public_paths
     /\ Falsy(resp.credential) \/ ~resp.valid)
    => (resp.status = 401 /\ ~resp.handled)

\* C8: the public path exemption applies to the listed paths only: a request
\* on /api/prompt or /api/auth/refresh, when these are not listed, reaches
\* the handler only after verify_token accepted its token.
C8_OnlyListedPathsSkip ==
    (/\ resp.op = "request"
     /\ resp.path \in {PromptApiPath, RefreshPath}
     /\ resp.path \notin public_paths
     /\ resp.handled)
    => resp.verified

\* C9: an issued credential that has left the live token set (it was
\* revoked) is never again put into it and is never again accepted by Verify.
C9_RevokedIsTerminal ==
    [][/\ \A tk \in issued :
             tk \notin DOMAIN tokens => tk \notin DOMAIN tokens'
       /\ \A tk \in issued :
             (tk \notin DOMAIN tokens /\ Verify(tk))
                => resp'.result = NonePayload]_vars

C11_InvalidInputRejected ==
    (resp.op = "issue" /\ (resp.user_id = "" \/ config.token_expiry_hours <= 0))
    => (resp.token = NoToken /\ resp.token \notin DOMAIN tokens)

\* C12: under every interleaving of the callers' handlers, a credential
\* whose last completed call is an Issue is in the live token set, one whose
\* last completed call is a Revoke is not, and the gate's Verify accepts
\* every unexpired credential a completed Issue returned.
C12_NoLostUpdate ==
    /\ \A tk \in DOMAIN lastop :
          (lastop[tk] = "issue") <=> (tk \in DOMAIN tokens)
    /\ DOMAIN tokens \subseteq DOMAIN lastop
    /\ (resp.op = "request" /\ resp.presented \in issued
                            /\ now < ExpOf(resp.presented))
          => resp.verified

\* C12 witness: while one caller's handler is suspended, the gate verified
\* a credential for another caller, after an Issue and a Revoke completed
C12_Witness ==
    /\ \E c \in DOMAIN pending : pending[c].busy
    /\ resp.op = "request" /\ resp.verified
    /\ \E t1, t2 \in DOMAIN lastop :
          lastop[t1] = "issue" /\ lastop[t2] = "revoke"

\* C13: the string the gate presents to Verify is the Bearer token of the
\* Authorization header when there is one, else the X-API-Key header when
\* it is present, else the api_token query parameter; a lower source is
\* used only when every higher one is absent.
C13_ExtractionPrecedence ==
    (resp.op = "request" /\ resp.presented # NoToken)
    => /\ Sources(resp.req).bearer
             => resp.presented = resp.req.authorization[2]
       /\ (~Sources(resp.req).bearer /\ Sources(resp.req).key)
             => resp.presented = resp.req.x_api_key
       /\ (~Sources(resp.req).bearer /\ ~Sources(resp.req).key)
             => resp.presented = resp.req.api_token

\* C13 witness: a request with an X-API-Key header and an api_token
\* parameter but no Bearer token, and the gate presented the header
C13_Witness ==
    /\ resp.op = "request"
    /\ Sources(resp.req) = [bearer |-> FALSE, key |-> TRUE, query |-> TRUE]
    /\ resp.presented = KeyGarbage

\* the gate answered the request itself
Rejected(r) == r.op = "request" /\ ~r.handled

\* C14: any two requests the gate rejects, whatever the reasons, get the
\* same status and the same body.
C14_UniformRejection ==
    [][(Rejected(resp) /\ Rejected(resp'))
         => (resp'.status = resp.status /\ resp'.message = resp.message)]_vars

\* C15: when the gate calls the handler after verify_token accepted the
\* credential, the request context carries the subject claim and the
\* claims of that credential; the gate attaches a subject only from a
\* credential verify_token accepts in that request.
C15_ContextFromVerified ==
    /\ (resp.op = "request" /\ resp.handled /\ resp.verified)
          => /\ resp.user_id = resp.presented[2]["user_id"]
             /\ resp.auth_payload = resp.presented[2]
    /\ (resp.op = "request"
          /\ (resp.user_id # NoneStr \/ resp.auth_payload # NonePayload))
          => /\ resp.valid
             /\ resp.presented = resp.credential
             /\ resp.user_id = resp.credential[2]["user_id"]

\* C15 witness: the handler of a protected path ran with the subject of the
\* verified credential in the request context
C15_Witness ==
    /\ resp.op = "request" /\ resp.handled /\ resp.verified
    /\ resp.path = PromptApiPath
    /\ resp.user_id = "alice"

\* C16: Verify has no side effects: for every string, accepted or rejected,
\* the live token set and the configuration with the signing secret are
\* after the call what they were before it.
C16_VerifyNoSideEffect ==
    [][\A tk \in Presentable :
          Verify(tk) => (tokens' = tokens /\ config' = config)]_vars

\* C16 witness: Verify found a credential expired whose entry, with that of
\* another credential, is still in the live token set
C16_Witness ==
    /\ resp.op = "verify"
    /\ resp.error = "ExpiredSignatureError"
    /\ resp.token \in DOMAIN tokens
    /\ Cardinality(DOMAIN tokens) = 2

\* C17: Issue adds exactly one entry to the live token set, keyed by the
\* returned credential and recording the subject passed to Issue; Revoke(c)
\* removes at most the entry keyed c; both leave every other entry and the
\* configuration as they were; every key of the live token set is an issued
\* credential whose recorded subject is its subject claim.
C17_FrameOfIssueRevoke ==
    [][/\ \A in \in IssueInputs :
             Issue(in[1], in[2])
             => /\ Cardinality(DOMAIN tokens') = Cardinality(DOMAIN tokens) + 1
                /\ resp'.token \in DOMAIN tokens'
                /\ tokens'[resp'.token].user_id = in[1]
                /\ \A k \in DOMAIN tokens \ {resp'.token} :
                      k \in DOMAIN tokens' /\ tokens'[k] = tokens[k]
                /\ config' = config
       /\ \A tk \in issued \cup {Garbage} :
             Revoke(tk)
             => /\ DOMAIN tokens \ {tk} \subseteq DOMAIN tokens'
                /\ DOMAIN tokens' \subseteq DOMAIN tokens
                /\ \A k \in DOMAIN tokens' : tokens'[k] = tokens[k]
                /\ config' = config
       /\ \A k \in DOMAIN tokens' :
             k \in issued' /\ tokens'[k].user_id = k[2]["user_id"]]_vars

\* C18: after Verify rejected a credential because it expired, the
\* credential is not a key of the live token set.
C18_ExpiredEntryRemoved ==
    (resp.op = "verify" /\ resp.error = "ExpiredSignatureError")
    => resp.token \notin DOMAIN tokens

\* C19: a refresh with a token Verify accepts returns a credential of the
\* same subject that differs from the old token; when the handler returns,
\* the returned credential is in the live token set and the old one is not.
C19_RefreshReplaces ==
    (resp.op = "request" /\ resp.path = RefreshPath /\ resp.handled
                        /\ resp.status = 200)
    => /\ resp.token # resp.req.token
       /\ resp.token[2]["user_id"] = resp.req.token[2]["user_id"]
       /\ resp.token \in DOMAIN tokens
       /\ resp.req.token \notin DOMAIN tokens

\* C20: a login whose username or password is missing or empty is answered
\* 400 and leaves the live token set unchanged; any other login issues one
\* credential whose subject is the username, records it in the live token
\* set and returns it with token_type Bearer.
C20_LoginIssues ==
    [][(resp'.op = "request" /\ resp'.path = LoginPath /\ resp'.handled
                            /\ resp'.req.json_ok)
         => IF resp'.req.username \in {NoneStr, ""}
               \/ resp'.req.password \in {NoneStr, ""}
            THEN /\ resp'.status = 400
                 /\ resp'.token = NoToken
                 /\ tokens' = tokens /\ issued' = issued
            ELSE /\ resp'.status = 200 /\ resp'.message = "Bearer"
                 /\ resp'.token[2]["user_id"] = resp'.req.username
                 /\ resp'.token \in DOMAIN tokens'
                 /\ tokens'[resp'.token].user_id = resp'.req.username
                 /\ DOMAIN tokens' = DOMAIN tokens \cup {resp'.token}
                 /\ \A k \in DOMAIN tokens \ {resp'.token} :
                       tokens'[k] = tokens[k]
                 /\ issued' = issued \cup {resp'.token}]_vars

\* C20 witness: a second login succeeded and both credentials are live
C20_Witness ==
    /\ resp.op = "request" /\ resp.path = LoginPath /\ resp.status = 200
    /\ resp.req.username = "alice" /\ resp.req.password = "pw"
    /\ resp.token \in DOMAIN tokens
    /\ Cardinality(DOMAIN tokens) = 2

C22_DecoratorGuards ==
    (resp.op = "request" /\ resp.path \in ProtectedPaths /\ resp.handled)
    => /\ resp.status = 200
             => /\ resp.verified /\ resp.valid
                /\ resp.user_id = resp.credential[2]["user_id"]
       /\ ~resp.verified
             => /\ resp.status = 401
                /\ resp.message = "Authentication required"
       /\ resp.status \in {200, 401}

\* C22 witness: a request with a credential verify_token accepts reached
\* the decorator through a bypass of the gate and was answered 401
C22_Witness ==
    /\ resp.op = "request" /\ resp.path \in ProtectedPaths /\ resp.handled
    /\ resp.valid /\ ~resp.verified
    /\ resp.status = 401 /\ resp.message = "Authentication required"

====
